---- MODULE Spec2Model ----
(***************************************************************************)
(* The Trace / Finalize protocol of gc/src/trace.rs, executed as a call    *)
(* stack over a small heap of managed pointers, and the evaluate / forward *)
(* entry points of src/lib/lib.rs.                                         *)
(***************************************************************************)
EXTENDS Integers, Sequences, FiniteSets, Bags, TLC

VARIABLES
    nightly,    \* whether the crate is built with feature "nightly"
    this,       \* the value the protocol operations are invoked on (&self)
    heap,       \* payload of every managed pointer
    roots,      \* root count of every managed pointer
    marked,     \* mark bit of every managed pointer
    finalized,  \* finalized flag of every managed pointer
    fired,      \* number of Finalize runs on every managed pointer's payload
    stack,      \* call stack of the running operation
    log,        \* invocations and Finalize runs of the running top-level call
    nroot,      \* root calls on `this` not yet matched by an unroot call
    streak,     \* history: the root/unroot calls since the last unrooted state
    phase,      \* what the caller of the protocol is doing
    pending,    \* managed pointers the collector still has to handle
    seen,       \* history: the children the last finished call on `this` visited
    ev          \* state of one evaluate / forward call of lib.rs

gcvars == <<nightly, this, heap, roots, marked, finalized, fired, stack, log, nroot,
            streak, phase, pending, seen>>
vars == <<nightly, this, heap, roots, marked, finalized, fired, stack, log, nroot,
          streak, phase, pending, seen, ev>>

----------------------------------------------------------------------------
(* Bounds of the model *)

\* outstanding root calls on `this`
MaxRootCalls == 2
\* longest fixed-length array among the values tried
MaxArrayLen == 33
\* largest tuple arity among the values tried
MaxTupleArity == 13

----------------------------------------------------------------------------
(* Values.  Every value is a record: its type constructor (shape), its     *)
(* variant (tag), what it holds (items; for a map, its entries), the       *)
(* managed pointer it is (ptr, for a Gc handle) and a number n (a scalar's *)
(* value, a function pointer's arity).                                     *)

Val(s, t, i, p, k) == [shape |-> s, tag |-> t, items |-> i, ptr |-> p, n |-> k]

Leaf(ty, k) == Val(ty, "", <<>>, 0, k)
Gc(p) == Val("Gc", "", <<>>, p, 0)
Seqlike(s, i) == Val(s, "", i, 0, 0)
Some(v) == Val("Option", "Some", <<v>>, 0, 0)
None == Val("Option", "None", <<>>, 0, 0)
Ok(v) == Val("Result", "Ok", <<v>>, 0, 0)
Err(v) == Val("Result", "Err", <<v>>, 0, 0)
Entry(key, val) == [k |-> key, v |-> val]
Maplike(s, es) == Val(s, "", es, 0, 0)
FnPtr(abi, arity) == Val("fn", abi, <<>>, 0, arity)

----------------------------------------------------------------------------
(* Which types implement Trace, and through which macro *)

\* simple_empty_finalize_trace![...]
SimpleEmptyTypes ==
    {"()", "isize", "usize", "bool", "i8", "u8", "i16", "u16", "i32", "u32",
     "i64", "u64", "f32", "f64", "char", "String", "Path", "PathBuf",
     "AtomicBool", "AtomicIsize", "AtomicUsize"}

\* #[cfg(feature = "nightly")] simple_empty_finalize_trace![i128, u128]
NightlyEmptyTypes == {"i128", "u128"}

\* impl Trace for &'static T
StaticRefType == "&'static T"

\* last length listed in array_finalize_trace_impls![...]
ArrayCutoff == 31
\* the lengths listed in array_finalize_trace_impls![...]
ArrayLens == 0..ArrayCutoff

\* arity of the last entry of type_arg_tuple_based_finalized_trace_impls![...]
TypeArgCutoff == 12
\* arities of the entries of type_arg_tuple_based_finalized_trace_impls![...]
TypeArgArities == 0..TypeArgCutoff

\* fn_finalize_trace_group!: the function pointer types of one arity
FnAbis(arity) ==
    IF arity = 0
    THEN {"extern Rust fn", "extern C fn",
          "unsafe extern Rust fn", "unsafe extern C fn"}
    ELSE {"extern Rust fn", "extern C fn", "extern C fn ...",
          "unsafe extern Rust fn", "unsafe extern C fn",
          "unsafe extern C fn ..."}

\* tuple_finalize_trace!: nothing for (), one custom_trace impl otherwise;
\* () is in the simple_empty_finalize_trace! list
TupleImpl(arity) ==
    IF arity \notin TypeArgArities THEN "none"
    ELSE IF arity = 0
         THEN (IF "()" \in SimpleEmptyTypes THEN "empty" ELSE "none")
         ELSE "custom"

\* mutant: the list of lengths stops one short
ArrayImpl_OneShort(len) ==
    IF len \in 0..(ArrayCutoff - 1) THEN "custom" ELSE "none"

\* array_finalize_trace!($n) for every listed $n
ArrayImpl(len) == IF len \in ArrayLens THEN "custom" ELSE "none"

\* the containers and wrappers implemented with custom_trace!
CustomShapes ==
    {"Box", "Vec", "Option", "Result", "BinaryHeap", "BTreeMap", "BTreeSet",
     "HashMap", "HashSet", "LinkedList", "VecDeque"}

MapShapes == {"BTreeMap", "HashMap"}

\* the macro that implements Trace for the type of v: "empty" for
\* unsafe_empty_trace!, "custom" for custom_trace!, "gc" for the managed
\* pointer's own implementation, "none" when there is no implementation
ImplKind(v) ==
    CASE v.shape \in SimpleEmptyTypes -> "empty"
      [] v.shape \in NightlyEmptyTypes -> IF nightly THEN "empty" ELSE "none"
      [] v.shape = StaticRefType -> "empty"
      [] v.shape = "fn" ->
            IF v.n \in TypeArgArities /\ v.tag \in FnAbis(v.n)
            THEN "empty" ELSE "none"
      [] v.shape = "tuple" -> TupleImpl(Len(v.items))
      [] v.shape = "array" -> ArrayImpl(Len(v.items))
      [] v.shape \in CustomShapes -> "custom"
      [] v.shape = "Gc" -> "gc"
      [] OTHER -> "none"

\* what a value holds directly, from its representation
Elements(v) ==
    IF v.shape \in MapShapes
    THEN [i \in 1..Len(v.items) |-> v.items[i].k]
         \o [i \in 1..Len(v.items) |-> v.items[i].v]
    ELSE v.items

\* T: Trace bounds of the impls: a composite implements Trace only when
\* its element types do
RECURSIVE HasTrace(_)
HasTrace(v) ==
    /\ ImplKind(v) # "none"
    /\ \A i \in 1..Len(Elements(v)) : HasTrace(Elements(v)[i])

----------------------------------------------------------------------------
(* The bodies handed to custom_trace!, one per impl: the children the body *)
(* calls mark on, in the order it calls it                                 *)

\* for v in this { mark(v); }
ArrayBody(self) == [i \in 1..Len(self.items) |-> self.items[i]]

\* $(mark($args);)*
TupleBody(self) == [i \in 1..Len(self.items) |-> self.items[i]]

\* mark(&**this)
BoxBody(self) == <<self.items[1]>>

\* mutant: the loop runs twice over the vector
VecBody_Twice(self) == self.items \o self.items

\* for e in this { mark(e); }
VecBody(self) == [i \in 1..Len(self.items) |-> self.items[i]]

\* mutant: the Some arm marks nothing
OptionBody_MarksNothing(self) == <<>>

\* if let Some(ref v) = *this { mark(v); }
OptionBody(self) == IF self.tag = "Some" THEN <<self.items[1]>> ELSE <<>>

\* match *this { Ok(ref v) => mark(v), Err(ref v) => mark(v) }
ResultBody(self) ==
    CASE self.tag = "Ok" -> <<self.items[1]>>
      [] self.tag = "Err" -> <<self.items[1]>>

\* for v in this.into_iter() { mark(v); }
BinaryHeapBody(self) == [i \in 1..Len(self.items) |-> self.items[i]]

\* mutant: the loop marks the values and forgets the keys
BTreeMapBody_ValuesOnly(self) ==
    [i \in 1..Len(self.items) |-> self.items[i].v]

\* for (k, v) in this { mark(k); mark(v); }
BTreeMapBody(self) ==
    [i \in 1..(2 * Len(self.items)) |->
        IF i % 2 = 1 THEN self.items[(i + 1) \div 2].k
                     ELSE self.items[i \div 2].v]

\* for v in this { mark(v); }
BTreeSetBody(self) == [i \in 1..Len(self.items) |-> self.items[i]]

\* for (k, v) in this.iter() { mark(k); mark(v); }
HashMapBody(self) ==
    [i \in 1..(2 * Len(self.items)) |->
        IF i % 2 = 1 THEN self.items[(i + 1) \div 2].k
                     ELSE self.items[i \div 2].v]

\* for v in this.iter() { mark(v); }
HashSetBody(self) == [i \in 1..Len(self.items) |-> self.items[i]]

\* for v in this.iter() { mark(v); }
LinkedListBody(self) == [i \in 1..Len(self.items) |-> self.items[i]]

\* for v in this.iter() { mark(v); }
VecDequeBody(self) == [i \in 1..Len(self.items) |-> self.items[i]]

\* $body of the impl for self's type
Body(self) ==
    CASE self.shape = "array" -> ArrayBody(self)
      [] self.shape = "tuple" -> TupleBody(self)
      [] self.shape = "Box" -> BoxBody(self)
      [] self.shape = "Vec" -> VecBody(self)
      [] self.shape = "Option" -> OptionBody(self)
      [] self.shape = "Result" -> ResultBody(self)
      [] self.shape = "BinaryHeap" -> BinaryHeapBody(self)
      [] self.shape = "BTreeMap" -> BTreeMapBody(self)
      [] self.shape = "BTreeSet" -> BTreeSetBody(self)
      [] self.shape = "HashMap" -> HashMapBody(self)
      [] self.shape = "HashSet" -> HashSetBody(self)
      [] self.shape = "LinkedList" -> LinkedListBody(self)
      [] self.shape = "VecDeque" -> VecDequeBody(self)

----------------------------------------------------------------------------
(* The four methods, as the statements each runs *)

Ops == {"trace", "root", "unroot", "finalize_glue"}

\* mutant: finalize_glue is empty like the other three
unsafe_empty_trace_NoFinalize(op) == <<>>

\* unsafe_empty_trace!: three empty methods, finalize_glue runs finalize
unsafe_empty_trace(op) ==
    IF op = "finalize_glue" THEN <<"finalize">> ELSE <<>>

\* mutant: finalize_glue runs $body and never finalize
custom_trace_NoFinalize(op) == <<"body">>

\* mutant: finalize_glue runs finalize after $body
custom_trace_FinalizeLast(op) ==
    IF op = "finalize_glue" THEN <<"body", "finalize">> ELSE <<"body">>

\* custom_trace!: every method runs $body, finalize_glue runs finalize first
custom_trace(op) ==
    IF op = "finalize_glue" THEN <<"finalize", "body">> ELSE <<"body">>

\* mutant: the mark of unroot calls root
mark_UnrootRoots(op) ==
    CASE op = "trace" -> "trace"
      [] op = "root" -> "root"
      [] op = "unroot" -> "root"
      [] op = "finalize_glue" -> "finalize_glue"

\* mutant: the mark of trace calls root
mark_TraceRoots(op) ==
    CASE op = "trace" -> "root"
      [] op = "root" -> "root"
      [] op = "unroot" -> "unroot"
      [] op = "finalize_glue" -> "finalize_glue"

\* the local fn mark of each method of custom_trace!: the method it calls
\* on a child
mark(op) ==
    CASE op = "trace" -> "trace"
      [] op = "root" -> "root"
      [] op = "unroot" -> "unroot"
      [] op = "finalize_glue" -> "finalize_glue"

\* the managed pointer's own methods: one step each
GcMethod(op) == <<"gc">>

\* the statements of method op of v's impl
Method(op, v) ==
    CASE ImplKind(v) = "empty" -> unsafe_empty_trace(op)
      [] ImplKind(v) = "custom" -> custom_trace(op)
      [] ImplKind(v) = "gc" -> GcMethod(op)

----------------------------------------------------------------------------
(* The values and heaps tried *)

L1 == Leaf("i32", 1)
L2 == Leaf("i32", 2)
S0 == Leaf("String", 0)
G1 == Gc(1)
G2 == Gc(2)

\* payloads of the two managed pointers: a two-node cycle, a chain whose
\* first node holds the second twice, and a node that points to itself
HCycle == <<Seqlike("Box", <<G2>>), Seqlike("Box", <<G1>>)>>
HChain == <<Seqlike("Vec", <<G2, G2>>), S0>>
HSelf == <<Some(G1), None>>
Heaps == {HCycle, HChain, HSelf}

\* root counts held by owners other than `this`
ExtRoots == {<<0, 0>>, <<0, 1>>}

LeafSubjects ==
    {Leaf(ty, 0) : ty \in SimpleEmptyTypes \cup NightlyEmptyTypes
                              \cup {StaticRefType}}
    \cup UNION {{FnPtr(abi, a) : abi \in FnAbis(a)} : a \in TypeArgArities}

\* containers of one element type, with 0, 1 and more elements
ListShapes == {"array", "Vec", "BinaryHeap", "LinkedList", "VecDeque"}
SetShapes == {"BTreeSet", "HashSet"}
ListItems ==
    {<<>>, <<G1>>, <<G1, G2>>, <<G1, G1>>, <<G2, G1, G2>>,
     <<Some(G2), None>>}
SetItems == {<<>>, <<G1>>, <<G1, G2>>}
MapEntries ==
    {<<>>, <<Entry(L1, G1)>>, <<Entry(L1, G1), Entry(L2, G2)>>,
     <<Entry(G1, G2)>>, <<Entry(G1, L1), Entry(G2, L1)>>}
TupleItems ==
    {<<G1>>, <<L1, G1>>, <<G1, S0, G2>>, <<Seqlike("Vec", <<G2>>), G1>>}

PtrSubjects ==
    {Seqlike(s, i) : s \in ListShapes, i \in ListItems}
    \cup {Seqlike(s, i) : s \in SetShapes, i \in SetItems}
    \cup {Maplike(s, es) : s \in MapShapes, es \in MapEntries}
    \cup {Seqlike("tuple", i) : i \in TupleItems}
    \cup {None, Some(G1), Some(L1), Some(Seqlike("Vec", <<G1, G2>>))}
    \cup {Ok(G1), Err(G2), Ok(L1), Err(S0)}
    \cup {Seqlike("Box", <<G1>>), Seqlike("Box", <<L1>>),
          Seqlike("Box", <<Seqlike("Vec", <<G1, G2>>)>>)}
    \cup {G1, G2}

\* arrays and tuples of every size up to the bounds, holding scalars
SizedSubjects ==
    {Seqlike("array", [i \in 1..len |-> L1]) : len \in 0..MaxArrayLen}
    \cup {Seqlike("tuple", [i \in 1..len |-> L1]) : len \in 0..MaxTupleArity}

----------------------------------------------------------------------------
(* The call stack *)

Frame(op, v, path, node) ==
    [op |-> op, val |-> v, path |-> path, node |-> node,
     code |-> Method(op, v),
     todo |-> IF ImplKind(v) = "custom" THEN Body(v) ELSE <<>>,
     k |-> 0]

CallEv(op, v, path) == [kind |-> "call", op |-> op, path |-> path, val |-> v]
\* the invocation a caller makes, with the pointers' state it starts from
TopEv(op, v) ==
    [kind |-> "call", op |-> op, path |-> <<>>, val |-> v,
     pre |-> [roots |-> roots, marked |-> marked, finalized |-> finalized,
              fired |-> fired]]
\* the values of the calls a log records at depth 1, in call order
ChildCalls(l) == SelectSeq(l, LAMBDA e : e.kind = "call" /\ Len(e.path) = 1)
ChildVals(l) == [i \in 1..Len(ChildCalls(l)) |-> ChildCalls(l)[i].val]
FinEv(op, v, path) == [kind |-> "fin", op |-> op, path |-> path, val |-> v]

Top == stack[Len(stack)]
SetTop(f) == [stack EXCEPT ![Len(stack)] = f]
Running == stack # <<>>
NoStreak == [ups |-> 0, downs |-> 0, pure |-> TRUE, base |-> <<0, 0>>]
EvIdle == [pc |-> "idle"]

Init ==
    /\ \/ this \in LeafSubjects \cup SizedSubjects /\ heap = HCycle
          /\ roots = <<0, 0>>
       \/ this \in PtrSubjects /\ heap \in Heaps /\ roots \in ExtRoots
    \* the feature decides the impls of i128 and u128 and of nothing else
    /\ nightly \in (IF this.shape \in NightlyEmptyTypes THEN BOOLEAN
                                                       ELSE {FALSE})
    /\ marked = [p \in DOMAIN heap |-> FALSE]
    /\ finalized = [p \in DOMAIN heap |-> FALSE]
    /\ fired = [p \in DOMAIN heap |-> 0]
    /\ stack = <<>>
    /\ log = <<>>
    /\ nroot = 0
    /\ streak = NoStreak
    /\ phase = "idle"
    /\ pending = {}
    /\ seen = [op |-> "", kids |-> <<>>]
    /\ ev = EvIdle

\* a caller invokes Trace::trace(&this)
CallTrace ==
    /\ phase = "idle" /\ ~Running /\ HasTrace(this)
    /\ stack' = <<Frame("trace", this, <<>>, 0)>>
    /\ log' = <<TopEv("trace", this)>>
    /\ UNCHANGED <<nightly, this, heap, roots, marked, finalized, fired, nroot,
                   streak, phase, pending, seen, ev>>

\* a caller moves `this` into a root position: Trace::root(&this)
CallRoot ==
    /\ phase = "idle" /\ ~Running /\ HasTrace(this)
    /\ nroot < MaxRootCalls
    /\ stack' = <<Frame("root", this, <<>>, 0)>>
    /\ log' = <<TopEv("root", this)>>
    /\ nroot' = nroot + 1
    /\ streak' =
         IF nroot = 0
         THEN [ups |-> 1, downs |-> 0, pure |-> TRUE, base |-> roots]
         ELSE IF streak.pure /\ streak.downs = 0
              THEN [streak EXCEPT !.ups = @ + 1]
              ELSE [streak EXCEPT !.ups = 0, !.downs = 0, !.pure = FALSE]
    /\ UNCHANGED <<nightly, this, heap, roots, marked, finalized, fired, phase,
                   pending, seen, ev>>

\* a caller moves `this` out of a root position: Trace::unroot(&this)
CallUnroot ==
    /\ phase = "idle" /\ ~Running /\ HasTrace(this)
    /\ nroot > 0
    /\ stack' = <<Frame("unroot", this, <<>>, 0)>>
    /\ log' = <<TopEv("unroot", this)>>
    /\ nroot' = nroot - 1
    /\ streak' = IF streak.pure THEN [streak EXCEPT !.downs = @ + 1]
                                ELSE streak
    /\ UNCHANGED <<nightly, this, heap, roots, marked, finalized, fired, phase,
                   pending, seen, ev>>

\* a caller reclaims `this`: Trace::finalize_glue(&this), once, unrooted
CallFinalizeGlue ==
    /\ phase = "idle" /\ ~Running /\ HasTrace(this)
    /\ nroot = 0
    /\ stack' = <<Frame("finalize_glue", this, <<>>, 0)>>
    /\ log' = <<TopEv("finalize_glue", this)>>
    /\ phase' = "final"
    /\ UNCHANGED <<nightly, this, heap, roots, marked, finalized, fired, nroot,
                   streak, pending, seen, ev>>

\* Finalize::finalize(self), the statement of finalize_glue
RunFinalize ==
    /\ Running /\ Top.code # <<>> /\ Head(Top.code) = "finalize"
    /\ log' = Append(log, FinEv(Top.op, Top.val, Top.path))
    /\ fired' = IF Top.node = 0 THEN fired
                ELSE [fired EXCEPT ![Top.node] = @ + 1]
    /\ stack' = SetTop([Top EXCEPT !.code = Tail(@)])
    /\ UNCHANGED <<nightly, this, heap, roots, marked, finalized, nroot, streak,
                   phase, pending, seen, ev>>

\* one mark(child) of $body: the method named by mark, on the next child
MarkChild ==
    /\ Running /\ Top.code # <<>> /\ Head(Top.code) = "body"
    /\ Top.todo # <<>>
    /\ LET child == Head(Top.todo)
           path == Append(Top.path, Top.k + 1)
           op == mark(Top.op)
       IN /\ stack' = Append(SetTop([Top EXCEPT !.todo = Tail(@),
                                                !.k = @ + 1]),
                             Frame(op, child, path, 0))
          /\ log' = Append(log, CallEv(op, child, path))
    /\ UNCHANGED <<nightly, this, heap, roots, marked, finalized, fired, nroot,
                   streak, phase, pending, seen, ev>>

\* $body has marked every child
BodyEnd ==
    /\ Running /\ Top.code # <<>> /\ Head(Top.code) = "body"
    /\ Top.todo = <<>>
    /\ stack' = SetTop([Top EXCEPT !.code = Tail(@)])
    /\ UNCHANGED <<nightly, this, heap, roots, marked, finalized, fired, log, nroot,
                   streak, phase, pending, seen, ev>>

\* the managed pointer's trace: mark the pointer and, the first time in a
\* pass, trace its payload
GcTrace ==
    /\ Running /\ Top.code = <<"gc">> /\ Top.op = "trace"
    /\ LET p == Top.val.ptr
           path == Append(Top.path, 1)
           done == SetTop([Top EXCEPT !.code = <<>>])
       IN IF marked[p]
          THEN /\ stack' = done
               /\ UNCHANGED <<marked, log>>
          ELSE /\ marked' = [marked EXCEPT ![p] = TRUE]
               /\ stack' = Append(done, Frame("trace", heap[p], path, p))
               /\ log' = Append(log, CallEv("trace", heap[p], path))
    /\ UNCHANGED <<nightly, this, heap, roots, finalized, fired, nroot, streak,
                   phase, pending, seen, ev>>

\* the managed pointer's root: increment its root count
GcRoot ==
    /\ Running /\ Top.code = <<"gc">> /\ Top.op = "root"
    /\ roots' = [roots EXCEPT ![Top.val.ptr] = @ + 1]
    /\ stack' = SetTop([Top EXCEPT !.code = <<>>])
    /\ UNCHANGED <<nightly, this, heap, marked, finalized, fired, log, nroot, streak,
                   phase, pending, seen, ev>>

\* the managed pointer's unroot: decrement its root count
GcUnroot ==
    /\ Running /\ Top.code = <<"gc">> /\ Top.op = "unroot"
    /\ roots' = [roots EXCEPT ![Top.val.ptr] = @ - 1]
    /\ stack' = SetTop([Top EXCEPT !.code = <<>>])
    /\ UNCHANGED <<nightly, this, heap, marked, finalized, fired, log, nroot, streak,
                   phase, pending, seen, ev>>

\* the managed pointer's finalize_glue: the first time only, finalize_glue
\* of its payload
GcFinalizeGlue ==
    /\ Running /\ Top.code = <<"gc">> /\ Top.op = "finalize_glue"
    /\ LET p == Top.val.ptr
           path == Append(Top.path, 1)
           done == SetTop([Top EXCEPT !.code = <<>>])
       IN IF finalized[p]
          THEN /\ stack' = done
               /\ UNCHANGED <<finalized, log>>
          ELSE /\ finalized' = [finalized EXCEPT ![p] = TRUE]
               /\ stack' = Append(done,
                                  Frame("finalize_glue", heap[p], path, p))
               /\ log' = Append(log, CallEv("finalize_glue", heap[p], path))
    /\ UNCHANGED <<nightly, this, heap, roots, marked, fired, nroot, streak, phase,
                   pending, seen, ev>>

\* a method returns; the log of a top-level call ends with it
Return ==
    /\ Running /\ Top.code = <<>>
    /\ stack' = SubSeq(stack, 1, Len(stack) - 1)
    /\ log' = IF Len(stack) = 1 THEN <<>> ELSE log
    /\ seen' = IF Len(stack) = 1 /\ phase \in {"idle", "final"}
               THEN [op |-> Top.op, kids |-> ChildVals(log)]
               ELSE seen
    /\ UNCHANGED <<nightly, this, heap, roots, marked, finalized, fired, nroot,
                   streak, phase, pending, ev>>

----------------------------------------------------------------------------
(* The collector that calls the protocol *)

\* a collection starts: clear the marks, the rooted pointers are to trace
CollectBegin ==
    /\ phase = "idle" /\ ~Running
    /\ phase' = "mark"
    /\ marked' = [p \in DOMAIN heap |-> FALSE]
    /\ pending' = {p \in DOMAIN heap : roots[p] > 0}
    /\ UNCHANGED <<nightly, this, heap, roots, finalized, fired, stack, log, nroot,
                   streak, seen, ev>>

\* the mark pass traces from one rooted pointer
CollectTraceRoot ==
    /\ phase = "mark" /\ ~Running
    /\ \E p \in pending :
         /\ pending' = pending \ {p}
         /\ stack' = <<Frame("trace", Gc(p), <<>>, 0)>>
         /\ log' = <<TopEv("trace", Gc(p))>>
    /\ UNCHANGED <<nightly, this, heap, roots, marked, finalized, fired, nroot,
                   streak, phase, seen, ev>>

\* the mark pass is over: the unmarked pointers are to finalize
CollectSweepBegin ==
    /\ phase = "mark" /\ ~Running /\ pending = {}
    /\ phase' = "sweep"
    /\ pending' = {p \in DOMAIN heap : ~marked[p]}
    /\ UNCHANGED <<nightly, this, heap, roots, marked, finalized, fired, stack, log,
                   nroot, streak, seen, ev>>

\* the sweep runs finalize_glue for one unmarked pointer
SweepFinalize ==
    /\ phase = "sweep" /\ ~Running
    /\ \E p \in pending :
         /\ pending' = pending \ {p}
         /\ stack' = <<Frame("finalize_glue", Gc(p), <<>>, 0)>>
         /\ log' = <<TopEv("finalize_glue", Gc(p))>>
    /\ UNCHANGED <<nightly, this, heap, roots, marked, finalized, fired, nroot,
                   streak, phase, seen, ev>>

\* the collection is over; what was finalized is reclaimed
CollectEnd ==
    /\ phase = "sweep" /\ ~Running /\ pending = {}
    /\ phase' = IF \E p \in DOMAIN heap : finalized[p] THEN "done" ELSE "idle"
    /\ UNCHANGED <<nightly, this, heap, roots, marked, finalized, fired, stack, log,
                   nroot, streak, pending, seen, ev>>

Next ==
    \/ CallTrace
    \/ CallRoot
    \/ CallUnroot
    \/ CallFinalizeGlue
    \/ RunFinalize
    \/ MarkChild
    \/ BodyEnd
    \/ GcTrace
    \/ GcRoot
    \/ GcUnroot
    \/ GcFinalizeGlue
    \/ Return
    \/ CollectBegin
    \/ CollectTraceRoot
    \/ CollectSweepBegin
    \/ SweepFinalize
    \/ CollectEnd

Spec == Init /\ [][Next]_vars

\* a step of the running operation; the operations are synchronous code
\* that nothing suspends
Step ==
    \/ RunFinalize
    \/ MarkChild
    \/ BodyEnd
    \/ GcTrace
    \/ GcRoot
    \/ GcUnroot
    \/ GcFinalizeGlue
    \/ Return

\* the values whose calls are followed to their end under fairness
LiveSubjects ==
    {G1, L1, Some(L1), Seqlike("Vec", <<G1, G2>>),
     Seqlike("array", <<G2, G1, G2>>),
     Seqlike("tuple", <<G1, S0, G2>>),
     Seqlike("Box", <<Seqlike("Vec", <<G1, G2>>)>>),
     Maplike("HashMap", <<Entry(G1, G2)>>)}

LiveInit == Init /\ this \in LiveSubjects

FairSpec == LiveInit /\ [][Next]_vars /\ WF_vars(Step)

----------------------------------------------------------------------------
(* evaluate and forward of lib.rs.  The lexer, the parser and the          *)
(* interpreter are called, not modelled: what each call returns is an      *)
(* input w of the run.                                                     *)

\* longest source text tried, in tokens
MaxSrcLen == 2
Chars == {"1", "+", "@"}
Sources == UNION {[1..len -> Chars] : len \in 0..MaxSrcLen}
Texts == {"3", "boom"}
Worlds(src) ==
    {w \in [lexn : 0..Len(src), lexok : BOOLEAN, parseok : BOOLEAN,
            runok : BOOLEAN, text : Texts] : w.lexok => w.lexn = Len(src)}

\* lexer.lex() and the lexer.tokens it leaves
Lex(src, w) ==
    [res |-> IF w.lexok THEN "Ok" ELSE "Err", err |-> "lex error",
     tokens |-> SubSeq(src, 1, w.lexn)]
\* Parser::new(tokens).parse_all()
ParseAll(tokens, w) ==
    [res |-> IF w.parseok THEN "Ok" ELSE "Err", expr |-> tokens]
\* engine.run(&expr), with v.to_string() of what it returns
Run(expr, w) == [res |-> IF w.runok THEN "Ok" ELSE "Err", text |-> w.text]

\* what a call did: the String it returned, its panic message if it
\* panicked, the console::debug lines, the token lists handed to the parser
\* and the expressions handed to the interpreter
Outcome(ret, panic, console, parsed, ran) ==
    [ret |-> ret, panic |-> panic, console |-> console, parsed |-> parsed,
     ran |-> ran]

\* mutant: evaluate gives up when lexing fails
evaluate_StopsAtLexError(src, w) ==
    LET lx == Lex(src, w)
        pr == ParseAll(lx.tokens, w)
        result == Run(pr.expr, w)
    IN IF lx.res = "Err"
       THEN Outcome("lexing failed", "", <<lx.err>>, <<>>, <<>>)
       ELSE IF pr.res = "Err"
            THEN Outcome("parsing failed", "", <<"parsing fail">>,
                         <<lx.tokens>>, <<>>)
            ELSE IF result.res = "Ok"
                 THEN Outcome(result.text, "", <<>>, <<lx.tokens>>,
                              <<pr.expr>>)
                 ELSE Outcome("error" \o ": " \o result.text, "",
                              <<"asudihsiu" \o " " \o result.text>>,
                              <<lx.tokens>>, <<pr.expr>>)

\* pub fn evaluate(src: &str) -> String
evaluate(src, w) ==
    LET lx == Lex(src, w)
        c1 == IF lx.res = "Ok" THEN <<>> ELSE <<lx.err>>
        tokens == lx.tokens
        pr == ParseAll(tokens, w)
        result == Run(pr.expr, w)
    IN IF pr.res = "Err"
       THEN Outcome("parsing failed", "", Append(c1, "parsing fail"),
                    <<tokens>>, <<>>)
       ELSE IF result.res = "Ok"
            THEN Outcome(result.text, "", c1, <<tokens>>, <<pr.expr>>)
            ELSE Outcome("error" \o ": " \o result.text, "",
                         Append(c1, "asudihsiu" \o " " \o result.text),
                         <<tokens>>, <<pr.expr>>)

\* fn parser_expr(src: &str) -> Expr
parser_expr(src, w) ==
    LET lx == Lex(src, w)
        pr == ParseAll(lx.tokens, w)
    IN IF lx.res = "Err"
       THEN [panic |-> "lexing failed", parsed |-> <<>>, expr |-> <<>>]
       ELSE IF pr.res = "Err"
            THEN [panic |-> "parsing failed", parsed |-> <<lx.tokens>>,
                  expr |-> <<>>]
            ELSE [panic |-> "", parsed |-> <<lx.tokens>>, expr |-> pr.expr]

\* pub fn forward(engine: &mut Interpreter, src: &str) -> String
forward(src, w) ==
    LET pe == parser_expr(src, w)
        result == Run(pe.expr, w)
    IN IF pe.panic # ""
       THEN Outcome("", pe.panic, <<>>, pe.parsed, <<>>)
       ELSE IF result.res = "Ok"
            THEN Outcome(result.text, "", <<>>, pe.parsed, <<pe.expr>>)
            ELSE Outcome("Error" \o ": " \o result.text, "", <<>>,
                         pe.parsed, <<pe.expr>>)

NoOutcome == Outcome("", "", <<>>, <<>>, <<>>)

EvalInit ==
    /\ nightly = FALSE
    /\ this = L1 /\ heap = HCycle /\ roots = <<0, 0>>
    /\ marked = [p \in DOMAIN heap |-> FALSE]
    /\ finalized = [p \in DOMAIN heap |-> FALSE]
    /\ fired = [p \in DOMAIN heap |-> 0]
    /\ stack = <<>> /\ log = <<>> /\ nroot = 0 /\ streak = NoStreak
    /\ phase = "idle" /\ pending = {}
    /\ seen = [op |-> "", kids |-> <<>>]
    /\ \E src \in Sources : \E w \in Worlds(src) :
         ev = [pc |-> "ready", fn |-> "", src |-> src, w |-> w,
               r |-> NoOutcome]

\* the host calls evaluate(src)
Evaluate ==
    /\ ev.pc = "ready"
    /\ ev' = [ev EXCEPT !.pc = "done", !.fn = "evaluate",
                        !.r = evaluate(ev.src, ev.w)]
    /\ UNCHANGED gcvars

\* a caller calls forward(engine, src)
Forward ==
    /\ ev.pc = "ready"
    /\ ev' = [ev EXCEPT !.pc = "done", !.fn = "forward",
                        !.r = forward(ev.src, ev.w)]
    /\ UNCHANGED gcvars

EvalNext == Evaluate \/ Forward

EvalSpec == EvalInit /\ [][EvalNext]_vars

----------------------------------------------------------------------------
(* What the claims speak of *)

Range(s) == {s[i] : i \in DOMAIN s}
BagOf(s) == [x \in Range(s) |-> Cardinality({i \in DOMAIN s : s[i] = x})]
Reverse(s) == [i \in 1..Len(s) |-> s[Len(s) + 1 - i]]

RECURSIVE SumSeq(_)
SumSeq(s) == IF s = <<>> THEN 0 ELSE Head(s) + SumSeq(Tail(s))

\* how many handles of managed pointer p value v owns directly, that is
\* not through the payload of another managed pointer
RECURSIVE OwnCount(_, _)
OwnCount(v, p) ==
    IF v.shape = "Gc" THEN (IF v.ptr = p THEN 1 ELSE 0)
    ELSE SumSeq([i \in 1..Len(Elements(v)) |-> OwnCount(Elements(v)[i], p)])

OwnedPtrs(v) == {p \in DOMAIN heap : OwnCount(v, p) > 0}

\* the pointers in M, and those reached from the pointers in T through
\* payloads of pointers outside M
RECURSIVE Closure(_, _)
Closure(T, M) ==
    IF T \subseteq M THEN M
    ELSE LET p == CHOOSE q \in T : q \notin M
         IN Closure(T \cup OwnedPtrs(heap[p]), M \cup {p})

\* number of values in v, v included, not entering managed pointers
RECURSIVE Size(_)
Size(v) == 1 + SumSeq([i \in 1..Len(Elements(v)) |-> Size(Elements(v)[i])])

PtrState == [roots |-> roots, marked |-> marked, finalized |-> finalized,
             fired |-> fired]

\* the state of the pointers after op on the single value e, from st
ElemEffect(op, e, st) ==
    CASE op = "root" ->
           [st EXCEPT !.roots =
              [p \in DOMAIN heap |-> st.roots[p] + OwnCount(e, p)]]
      [] op = "unroot" ->
           [st EXCEPT !.roots =
              [p \in DOMAIN heap |-> st.roots[p] - OwnCount(e, p)]]
      [] op = "trace" ->
           LET M0 == {q \in DOMAIN heap : st.marked[q]}
               M1 == Closure(OwnedPtrs(e), M0)
           IN [st EXCEPT !.marked = [p \in DOMAIN heap |-> p \in M1]]
      [] op = "finalize_glue" ->
           LET F0 == {q \in DOMAIN heap : st.finalized[q]}
               F1 == Closure(OwnedPtrs(e), F0)
           IN [st EXCEPT
                 !.finalized = [p \in DOMAIN heap |-> p \in F1],
                 !.fired = [p \in DOMAIN heap |->
                              IF p \in F1 \ F0 /\ heap[p].shape # "Gc"
                              THEN st.fired[p] + 1 ELSE st.fired[p]]]

\* op on each value of es in turn
RECURSIVE FoldEffect(_, _, _)
FoldEffect(op, es, st) ==
    IF es = <<>> THEN st
    ELSE FoldEffect(op, Tail(es), ElemEffect(op, Head(es), st))

\* the top-level call has run to its end and is about to return
AtReturn == Len(stack) = 1 /\ Top.code = <<>>
\* the running top-level call is a call on `this`
OnThis == phase \in {"idle", "final"}
IsComposite(v) == v.shape \in CustomShapes \cup {"array", "tuple"}

----------------------------------------------------------------------------
(* C1: when trace, root, unroot or finalize_glue on a composite value      *)
(* returns, the composite has called that same operation on each of its    *)
(* immediate elements exactly once, and the marks, root counts, finalized  *)
(* flags and Finalize runs of the managed pointers are those left by the   *)
(* operation applied to each element on its own, in the order of the       *)
(* elements or in the reverse order.                                       *)
C1_StructuralDelegation ==
    (AtReturn /\ IsComposite(log[1].val)) =>
        LET op == log[1].op
            v == log[1].val
            kids == ChildCalls(log)
        IN /\ BagOf(ChildVals(log)) = BagOf(Elements(v))
           /\ \A i \in 1..Len(kids) : kids[i].op = op
           /\ \A i, j \in 1..Len(kids) :
                kids[i].path = kids[j].path => i = j
           /\ PtrState = FoldEffect(op, Elements(v), log[1].pre)
           /\ PtrState = FoldEffect(op, Reverse(Elements(v)), log[1].pre)

\* root has returned on a map of two entries whose values are managed
\* pointers, and the root counts have changed
C1_Witness ==
    /\ AtReturn /\ log[1].op = "root"
    /\ log[1].val.shape = "BTreeMap" /\ Len(log[1].val.items) = 2
    /\ roots # log[1].pre.roots

(* C2: for a composite `this`, every one of the four operations visits     *)
(* the same children as the operation that ran before it, and these are    *)
(* what `this` holds: key and value of every entry of a map, the payload   *)
(* of an Option exactly when it is Some, the payload of the active variant *)
(* of a Result.                                                            *)
C2_SameOwnershipSet ==
    (AtReturn /\ OnThis /\ ImplKind(this) = "custom") =>
        LET visited == ChildVals(log)
        IN /\ seen.op # "" => BagOf(visited) = BagOf(seen.kids)
           /\ Range(visited) = Range(Elements(this))
           /\ this.shape \in MapShapes =>
                \A i \in 1..Len(this.items) :
                    /\ this.items[i].k \in Range(visited)
                    /\ this.items[i].v \in Range(visited)
           /\ this.shape = "Option" =>
                IF this.tag = "Some" THEN visited = <<this.items[1]>>
                                     ELSE visited = <<>>
           /\ this.shape = "Result" => visited = <<this.items[1]>>

\* finalize_glue has returned on a hash map with two entries after root or
\* unroot ran on it
C2_Witness ==
    /\ AtReturn /\ OnThis /\ log[1].op = "finalize_glue"
    /\ seen.op = "unroot"
    /\ this.shape = "HashMap" /\ Len(this.items) = 2

(* C3: after N >= 1 calls of root on `this` followed by N calls of unroot, *)
(* every managed pointer's root count is what it was before the first of   *)
(* the root calls.                                                         *)
C3_RootPairing ==
    (~Running /\ streak.pure /\ streak.ups >= 1
        /\ streak.ups = streak.downs) => roots = streak.base

\* two root calls then two unroot calls on a value that owns a pointer
\* whose root count was not zero
C3_Witness ==
    /\ ~Running /\ streak.pure /\ streak.ups = 2 /\ streak.downs = 2
    /\ \E p \in OwnedPtrs(this) : streak.base[p] > 0

(* C4: every leaf type implements the four operations; trace, root and     *)
(* unroot on a leaf value call nothing and change no managed pointer's     *)
(* mark, root count or finalized flag; finalize_glue runs the value's      *)
(* Finalize action exactly once, calls nothing else and changes no managed *)
(* pointer.                                                                *)
C4_LeafNoOp ==
    /\ this \in LeafSubjects =>
          ImplKind(this) = IF this.shape \in NightlyEmptyTypes /\ ~nightly
                           THEN "none" ELSE "empty"
    /\ (AtReturn /\ ImplKind(log[1].val) = "empty") =>
          /\ PtrState = log[1].pre
          /\ log = IF log[1].op = "finalize_glue"
                   THEN <<log[1], FinEv("finalize_glue", log[1].val, <<>>)>>
                   ELSE <<log[1]>>

\* finalize_glue has returned on a variadic function pointer of arity 12
C4_Witness ==
    /\ AtReturn /\ log[1].op = "finalize_glue"
    /\ this = FnPtr("unsafe extern C fn ...", 12)
    /\ Len(log) = 2

(* C5, as stated: Trace is implemented for arrays of every length from 0   *)
(* through 32 and for tuples of every arity from 0 through 12.             *)
C5_AsStated ==
    /\ (this.shape = "array" /\ Len(this.items) \in 0..32) =>
          ImplKind(this) # "none"
    /\ (this.shape = "tuple" /\ Len(this.items) \in 0..12) =>
          ImplKind(this) # "none"

(* C5, amended: Trace is implemented for arrays of every length from 0     *)
(* through 31 and for tuples of every arity from 0 through 12, and the     *)
(* four operations can be called on them.                                  *)
C5_CutoffCoverage ==
    /\ (this.shape = "array" /\ Len(this.items) \in 0..31) =>
          /\ ImplKind(this) # "none"
          /\ (\A i \in 1..Len(this.items) : HasTrace(this.items[i]))
                => HasTrace(this)
    /\ (this.shape = "tuple" /\ Len(this.items) \in 0..12) =>
          /\ ImplKind(this) # "none"
          /\ (\A i \in 1..Len(this.items) : HasTrace(this.items[i]))
                => HasTrace(this)

\* finalize_glue has returned on an array of length 31 after calling
\* finalize_glue on its 31 elements
C5_Witness ==
    /\ AtReturn /\ OnThis /\ log[1].op = "finalize_glue"
    /\ this.shape = "array" /\ Len(this.items) = 31
    /\ Len(ChildCalls(log)) = 31

(* C6: on the two-node cycle, when no pointer is rooted the collector's    *)
(* trace pass marks no node, and once its finalize_glue sweep is over the  *)
(* Finalize action of each node's payload has run exactly once; it never   *)
(* runs twice.                                                             *)
C6_TwoNodeCycle ==
    (heap = HCycle /\ roots = <<0, 0>>) =>
        /\ phase \in {"sweep", "done"} => \A p \in DOMAIN heap : ~marked[p]
        /\ phase = "done" => \A p \in DOMAIN heap : fired[p] = 1
        /\ \A p \in DOMAIN heap : fired[p] <= 1

\* the handle to node 1 was rooted, then unrooted, and a collection ran to
\* its end on the cycle
C6_Witness ==
    /\ heap = HCycle /\ this = G1 /\ phase = "done"
    /\ streak.ups = 1 /\ streak.downs = 1
    /\ roots = <<0, 0>> /\ fired = <<1, 1>>

\* calls a log records
CallCount(l) == Len(SelectSeq(l, LAMBDA e : e.kind = "call"))
\* number of values in the graph reachable from v: v's own values and the
\* payloads of the managed pointers reachable from it
GraphSize(v) ==
    Size(v) + SumSeq([p \in DOMAIN heap |->
                        IF p \in Closure(OwnedPtrs(v), {})
                        THEN Size(heap[p]) ELSE 0])

(* C7: a call of trace, root, unroot or finalize_glue never makes more     *)
(* invocations than there are values in the graph reachable from the value *)
(* it is called on, its stack is never deeper than that, no root count    *)
(* falls below zero, and the call returns, also when the graph has a cycle *)
(* of managed pointers.                                                    *)
C7_Totality ==
    /\ [](Running => /\ CallCount(log) <= GraphSize(log[1].val)
                     /\ Len(stack) <= GraphSize(log[1].val)
                     /\ \A p \in DOMAIN heap : roots[p] >= 0)
    /\ (Running ~> ~Running)

\* trace on a handle into the two-node cycle has visited both payloads and
\* is about to return
C7_Witness ==
    /\ AtReturn /\ heap = HCycle /\ log[1].op = "trace"
    /\ this = Seqlike("Vec", <<G1, G2>>) /\ OnThis
    /\ marked = <<TRUE, TRUE>> /\ log[1].pre.marked = <<FALSE, FALSE>>

IsStrictPrefix(a, b) == Len(a) < Len(b) /\ SubSeq(b, 1, Len(a)) = a

(* C8: in finalize_glue, a value's Finalize action runs before             *)
(* finalize_glue is called on anything below it, so before the Finalize    *)
(* action of each of its descendants, and when finalize_glue returns the   *)
(* Finalize action of every value it was called on has run exactly once.   *)
C8_FinalizeOrdering ==
    /\ \A i, j \in DOMAIN log :
          (log[i].kind = "fin" /\ IsStrictPrefix(log[i].path, log[j].path))
              => i < j
    /\ (AtReturn /\ log[1].op = "finalize_glue") =>
          \A j \in DOMAIN log :
             (log[j].kind = "call" /\ log[j].val.shape # "Gc") =>
                Cardinality({i \in DOMAIN log :
                   log[i].kind = "fin" /\ log[i].path = log[j].path}) = 1

\* finalize_glue has returned on a box of a vector of two managed pointers
\* into the cycle: the box, the vector and both payloads were finalized
C8_Witness ==
    /\ AtReturn /\ OnThis /\ log[1].op = "finalize_glue"
    /\ this = Seqlike("Box", <<Seqlike("Vec", <<G1, G2>>)>>)
    /\ heap = HCycle
    /\ Len(SelectSeq(log, LAMBDA e : e.kind = "fin")) = 4

(* C9: no step changes the heap's set of managed pointers or their         *)
(* payloads; a step changes a root count only inside a top-level root      *)
(* call, by exactly +1 on one pointer, or inside a top-level unroot call,  *)
(* by exactly -1 on one pointer; no step of trace or finalize_glue changes *)
(* a root count.                                                           *)
C9_RootCountFrame ==
    [][/\ heap' = heap
       /\ roots' # roots =>
            /\ Running
            /\ \/ /\ log[1].op = "root"
                  /\ \E p \in DOMAIN heap :
                        roots' = [roots EXCEPT ![p] = @ + 1]
               \/ /\ log[1].op = "unroot"
                  /\ \E p \in DOMAIN heap :
                        roots' = [roots EXCEPT ![p] = @ - 1]]_vars

\* trace has run through a vector of two managed pointers after a root
\* call, and an unroot call is changing the root counts
C9_Witness ==
    /\ Running /\ log[1].op = "unroot" /\ seen.op = "trace"
    /\ roots # log[1].pre.roots

(* C10: evaluate never panics: a lexing failure is logged and the tokens   *)
(* lexed so far are parsed; a parsing failure returns "parsing failed"     *)
(* and the interpreter is not run; an interpreter error returns "error: "  *)
(* and the error's text; otherwise the value's text is returned.  forward  *)
(* panics on a lexing or a parsing failure and returns "Error: " and the   *)
(* error's text on an interpreter error.                                   *)
C10_EvaluateErrors ==
    ev.pc = "done" =>
      LET w == ev.w
          r == ev.r
      IN /\ ev.fn = "evaluate" =>
              /\ r.panic = ""
              /\ ~w.lexok => /\ r.console # <<>>
                             /\ r.console[1] = "lex error"
              /\ r.parsed = <<SubSeq(ev.src, 1, w.lexn)>>
              /\ ~w.parseok => r.ret = "parsing failed" /\ r.ran = <<>>
              /\ (w.parseok /\ ~w.runok) => r.ret = "error: " \o w.text
              /\ (w.parseok /\ w.runok) => r.ret = w.text
              /\ w.parseok => Len(r.ran) = 1
         /\ ev.fn = "forward" =>
              /\ (~w.lexok \/ ~w.parseok) <=> r.panic # ""
              /\ r.panic # "" => r.ran = <<>>
              /\ (w.lexok /\ w.parseok /\ ~w.runok) =>
                    r.ret = "Error: " \o w.text
              /\ (w.lexok /\ w.parseok /\ w.runok) => r.ret = w.text

\* evaluate has returned after the lexer failed on the second token, the
\* parser accepted the first and the interpreter failed
C10_Witness ==
    /\ ev.pc = "done" /\ ev.fn = "evaluate"
    /\ ~ev.w.lexok /\ ev.w.lexn = 1 /\ Len(ev.src) = 2
    /\ ev.w.parseok /\ ~ev.w.runok
    /\ ev.r.ret = "error: boom"

====
